---- MODULE Spec2Model ----
(***************************************************************************)
(* pty-mcp: headless terminal sessions (src/src/terminal.ts), the PTY      *)
(* layer they consume (pty.ts) and the MCP tool handlers with their        *)
(* session registry (index.ts).                                            *)
(*                                                                         *)
(* The JavaScript event loop is modelled as interleaving of atomic steps:  *)
(* every synchronous block of a handler (from one await to the next) is    *)
(* one action; timers, PTY events, promise completions and the xterm write *)
(* buffer are steps of their own.                                          *)
(*                                                                         *)
(* The PTY and xterm are libraries outside the repository; they are        *)
(* modelled at the places the code calls them, by what they are documented *)
(* to do: a PTY delivers all its data events before its exit event, and    *)
(* xterm.write queues its chunks and callbacks and handles them in order.  *)
(***************************************************************************)
EXTENDS Integers, Sequences, FiniteSets, TLC

\* ---------------------------------------------------------------- bounds
MaxOut   == 2      \* chunks of output the PTY processes emit at most in one run
MaxQueue == 2      \* entries the xterm write buffer holds at most
MaxWrite == 1      \* write() calls one PTY receives at most
MaxSpawn == 2      \* spawn() calls on one HeadlessTerminal at most
MaxCalls == 4      \* calls of the class API in one run
MaxTools == 3      \* tool calls in one run
MaxLen   == 5      \* characters of the data passed to terminal_write

Terms     == {1, 2}          \* HeadlessTerminal objects
Ptys      == {1, 2}          \* PTY processes
Reqs      == {1, 2}          \* tool calls in flight
Dims      == {1, 2}          \* columns / rows of a screen
SpawnDims == {<<2, 2>>}      \* <<cols, rows>> a terminal_spawn call asks for
ExitCodes == {0, 42}         \* exit codes of a PTY process
Ids       == {1, 2}          \* the N of a session id term-N a caller may pass

NoPty     == 0               \* this.pty === null / this._exitPromise === null
NoCode    == -1              \* this._exitCode === null
Blank     == <<0, 0>>        \* an empty screen line
\* A colour string "#rrggbb" is the sequence of its six hex digits.
DEFAULT_FG == <<12, 0, 12, 0, 12, 0>>      \* "#c0c0c0"
DEFAULT_BG == <<1, 14, 1, 14, 1, 14>>      \* "#1e1e1e"

VARIABLES
  terms,      \* HeadlessTerminal objects: fields of the class
  xt,         \* per terminal: the xterm instance (write buffer, screen buffer)
  ptys,       \* PTY processes handed out by spawnPty
  client,     \* per terminal: a caller of the class API awaiting exit / flush
  lastCall,   \* the last synchronous call of the class API and its outcome
  calls,      \* calls (of the class API, or tool calls) made so far
  sessions,   \* index.ts: const sessions = new Map<string, HeadlessTerminal>()
  nextId,     \* index.ts: let nextId = 1
  reqs,       \* tool calls: the position of each suspended async handler
  reply       \* the last result a tool call returned to its caller

vars == <<terms, xt, ptys, client, lastCall, calls, sessions, nextId, reqs, reply>>

Min(a, b) == IF a < b THEN a ELSE b

\* ------------------------------------------------- xterm's screen buffer
\* lines: every line of the buffer, scrollback first; ybase: lines scrolled
\* off the top; cy: cursor row inside the viewport; xc, xr: live size.
NewBuffer(c, r) ==
  [lines |-> [i \in 1..r |-> Blank], ybase |-> 0, cy |-> 0, xc |-> c, xr |-> r]

\* One chunk "text\r\n" parsed at the cursor: the text lands on the cursor's
\* line, the line feed moves down or scrolls.
XParse(b, tok) ==
  LET at == b.ybase + b.cy + 1
      l1 == [b.lines EXCEPT ![at] = tok]
  IN IF b.cy = b.xr - 1
       THEN [b EXCEPT !.lines = Append(l1, Blank), !.ybase = @ + 1]
       ELSE [b EXCEPT !.lines = l1, !.cy = @ + 1]

RECURSIVE XGrow(_, _)
XGrow(b, r) ==
  IF b.xr >= r THEN b
  ELSE IF b.ybase > 0 /\ Len(b.lines) <= b.ybase + b.cy + 1
         THEN XGrow([b EXCEPT !.ybase = @ - 1, !.cy = @ + 1, !.xr = @ + 1], r)
         ELSE XGrow([b EXCEPT !.lines = Append(@, Blank), !.xr = @ + 1], r)

RECURSIVE XShrink(_, _)
XShrink(b, r) ==
  IF b.xr <= r THEN [b EXCEPT !.cy = Min(@, r - 1)]
  ELSE IF Len(b.lines) > b.ybase + b.cy + 1
         THEN XShrink([b EXCEPT !.lines = SubSeq(@, 1, Len(@) - 1), !.xr = @ - 1], r)
         ELSE XShrink([b EXCEPT !.ybase = @ + 1, !.xr = @ - 1], r)

XResize(b, c, r) ==
  LET b1 == IF r > b.xr THEN XGrow(b, r) ELSE XShrink(b, r)
  IN [b1 EXCEPT !.xc = c]

\* buffer.getLine(y), line.getCell(x): 0-based, undefined past the end.
HasLine(b, y) == y < Len(b.lines)
HasCell(b, x) == x < b.xc

\* --------------------------------------------- HeadlessTerminal (class)
\* Fields of an object; spawning counts spawn() calls suspended at
\* `await spawnPty(...)`, nspawn the calls made, failed a rejected spawn(),
\* sid the N of the id term-N the object was registered under (0: none).
Unmade ==
  [made |-> FALSE, cols |-> 1, rows |-> 1, pty |-> NoPty, exitPromise |-> NoPty,
   exited |-> FALSE, exitCode |-> NoCode, disposed |-> FALSE,
   spawning |-> 0, nspawn |-> 0, failed |-> FALSE, sid |-> 0]

constructor(c, r) == [Unmade EXCEPT !.made = TRUE, !.cols = c, !.rows = r]

NewXterm(c, r) == [q |-> <<>>, buf |-> NewBuffer(c, r), handed |-> {}, proc |-> {}]

NoProcess ==
  [owner |-> 0, emitted |-> 0, code |-> NoCode, promise |-> NoCode,
   killed |-> FALSE, wrote |-> 0, size |-> <<0, 0>>]

\* spawn() up to its first await: nothing of the object has changed yet.
spawnCall(tm) == [tm EXCEPT !.spawning = @ + 1, !.nspawn = @ + 1]

RECURSIVE Emitted(_)
Emitted(S) ==
  IF S = {} THEN 0
  ELSE LET p == CHOOSE x \in S : TRUE IN ptys[p].emitted + Emitted(S \ {p})

RECURSIVE InFlight(_)
InFlight(S) ==
  IF S = {} THEN 0
  ELSE LET t == CHOOSE x \in S : TRUE IN terms[t].spawning + InFlight(S \ {t})

\* Room for one more spawn() on t: the bounds on PTYs and on calls.
CanSpawn(t) ==
  /\ terms[t].nspawn < MaxSpawn
  /\ Cardinality({p \in Ptys : ptys[p].owner # 0})
       + InFlight(Terms) < Cardinality(Ptys)

FreePty == CHOOSE p \in Ptys : ptys[p].owner = 0 /\ \A o \in Ptys : ptys[o].owner = 0 => p <= o

\* A listener that writes to the interpreter made last, as if the
\* interpreter were one per module instead of one per object.
onDataTarget_shared(p) ==
  CHOOSE t \in Terms : terms[t].made /\ \A o \in Terms : terms[o].made => o <= t

\* The terminal whose interpreter the data listener of PTY p writes to:
\* the listener closes over `this`.
onDataTarget(p) == ptys[p].owner

\* An exit listener that records the exit and forgets the code.
onExit_noCode(tm, c) == [tm EXCEPT !.exited = TRUE]

\* The exit listener's assignments, and the value it resolves the promise to.
onExit(tm, c) == [tm EXCEPT !.exited = TRUE, !.exitCode = c]
onExitResolve(c) == c

\* waitForExit() without its check: it returns the null promise.
waitForExit_noCheck(tm) == FALSE
\* resize() with the check write() has.
resize_checked(tm) == tm.pty = NoPty

writeThrows(tm) == tm.pty = NoPty
waitForExitThrows(tm) == tm.exitPromise = NoPty
resizeThrows(tm) == FALSE

\* write(data) on a spawned terminal: this.pty.write(data).
write(t) == [ptys EXCEPT ![terms[t].pty].wrote = @ + 1]

\* A resize that reaches the interpreter only.
resizePty_none(t, c, r) == ptys

\* resize(cols, rows): the PTY when there is one, then the interpreter.
resizePty(t, c, r) ==
  IF terms[t].pty # NoPty THEN [ptys EXCEPT ![terms[t].pty].size = <<c, r>>] ELSE ptys
resizeXterm(t, c, r) == [xt EXCEPT ![t].buf = XResize(@, c, r)]

\* A flush whose callback does not wait for the writes before it.
flush_ahead(t, w) == [xt EXCEPT ![t].q = <<[kind |-> "flush", w |-> w]>> \o @]

\* flush(): xterm.write("", resolve) puts the callback behind every write
\* already in the write buffer; w names who awaits the promise.
flush(t, w) == [xt EXCEPT ![t].q = Append(@, [kind |-> "flush", w |-> w])]

\* A destroy that never reaches the PTY.
kill_none(t) == ptys

\* kill(): this.pty.kill() when there is a PTY.
kill(t) ==
  IF terms[t].pty # NoPty THEN [ptys EXCEPT ![terms[t].pty].killed = TRUE] ELSE ptys

\* destroy(): kill(), then xterm.dispose().
destroyTerm(tm) == [tm EXCEPT !.disposed = TRUE]

\* getText(): the lines the interpreter has among the first `rows`, each
\* trimmed of trailing blanks (a Blank line is the empty string).
getText(t) ==
  LET b == xt[t].buf
      n == Cardinality({y \in 0..(terms[t].rows - 1) : HasLine(b, y)})
  IN [i \in 1..n |-> b.lines[i]]

\* getCellGrid(): one row per y < rows; a cell is pushed only where the
\* interpreter has a line and a cell.
CellOf(tok, x) ==
  [char |-> IF x = 0 THEN tok ELSE Blank, fg |-> DEFAULT_FG, bg |-> DEFAULT_BG]

getCellGrid(t) ==
  LET b == xt[t].buf
  IN [i \in 1..terms[t].rows |->
        IF HasLine(b, i - 1)
          THEN LET n == Cardinality({x \in 0..(terms[t].cols - 1) : HasCell(b, x)})
               IN [j \in 1..n |-> CellOf(b.lines[i], j - 1)]
          ELSE <<>>]

\* The array a caller holds after getCellGrid(). `cells` are the values the
\* call copied out of the buffer; `view` names the terminal whose buffer the
\* array would go on reading, 0 when it reads none. The code builds the
\* array from new arrays and object literals of strings and booleans.
returnedGrid_view(t) == [cells |-> <<>>, view |-> t]

returnedGrid(t) == [cells |-> getCellGrid(t), view |-> 0]

\* ------------------------------------------------------ events (shared)
\* spawn() resumes after `await spawnPty`: the PTY exists, listeners wired,
\* the exit promise created; all in one synchronous block.
SpawnComplete(t) ==
  /\ terms[t].spawning > 0
  /\ LET p == FreePty IN
       /\ ptys' = [ptys EXCEPT ![p] = [NoProcess EXCEPT !.owner = t,
                                         !.size = <<terms[t].cols, terms[t].rows>>]]
       /\ terms' = [terms EXCEPT ![t].pty = p, ![t].exitPromise = p,
                                 ![t].spawning = @ - 1]
  /\ UNCHANGED <<xt, client, lastCall, calls, sessions, nextId, reqs, reply>>

\* spawnPty rejects (no backend, or the spawner throws): spawn() rejects.
SpawnFail(t) ==
  /\ terms[t].spawning > 0
  /\ terms' = [terms EXCEPT ![t].spawning = @ - 1, ![t].failed = TRUE]
  /\ UNCHANGED <<xt, ptys, client, lastCall, calls, sessions, nextId, reqs, reply>>

\* The PTY emits a chunk: the data listener hands it to xterm.write.
PtyData(p) ==
  /\ ptys[p].owner # 0
  /\ ptys[p].code = NoCode
  /\ Emitted(Ptys) < MaxOut
  /\ LET t   == onDataTarget(p)
         tok == <<p, ptys[p].emitted + 1>>
     IN /\ Len(xt[t].q) < MaxQueue
        /\ xt' = [xt EXCEPT ![t].q = Append(@, [kind |-> "data", tok |-> tok]),
                            ![t].handed = @ \cup {tok}]
  /\ ptys' = [ptys EXCEPT ![p].emitted = @ + 1]
  /\ UNCHANGED <<terms, client, lastCall, calls, sessions, nextId, reqs, reply>>

\* The process ends with code c: the exit listener runs, once.
PtyExit(p, c) ==
  /\ ptys[p].owner # 0
  /\ ptys[p].code = NoCode
  /\ ptys' = [ptys EXCEPT ![p].code = c, ![p].promise = onExitResolve(c)]
  /\ terms' = [terms EXCEPT ![ptys[p].owner] = onExit(@, c)]
  /\ UNCHANGED <<xt, client, lastCall, calls, sessions, nextId, reqs, reply>>

\* xterm's write buffer takes its oldest entry: a chunk is parsed into the
\* screen buffer, a flush callback resolves its promise.
XtermProcess(t) ==
  /\ xt[t].q # <<>>
  /\ LET it == Head(xt[t].q) IN
       IF it.kind = "data"
         THEN /\ xt' = [xt EXCEPT ![t].q = Tail(@), ![t].buf = XParse(@, it.tok),
                                  ![t].proc = @ \cup {it.tok}]
              /\ UNCHANGED <<client, reqs>>
         ELSE /\ xt' = [xt EXCEPT ![t].q = Tail(@)]
              /\ IF it.w[1] = "client"
                   THEN /\ client' = [client EXCEPT ![it.w[2]].pc = "flushed"]
                        /\ UNCHANGED reqs
                   ELSE /\ reqs' = [reqs EXCEPT ![it.w[2]].pc = "flushed"]
                        /\ UNCHANGED client
  /\ UNCHANGED <<terms, ptys, lastCall, calls, sessions, nextId, reply>>

\* ------------------------------------------ callers of the class (tests)
NoCall == [op |-> "none", t |-> 0, res |-> "none", c |-> 0, r |-> 0]
Call(op, t, res) == [NoCall EXCEPT !.op = op, !.t = t, !.res = res]

\* One more call, within the bound of the run.
OneCall == calls < MaxCalls /\ calls' = calls + 1
OneTool == calls < MaxTools /\ calls' = calls + 1

IdleClient == [pc |-> "idle", p |-> NoPty, sp |-> FALSE, need |-> {}, text |-> <<>>,
               grid |-> [cells |-> <<>>, view |-> 0]]

\* new HeadlessTerminal({cols, rows})
New(t, c, r) ==
  /\ OneCall
  /\ ~terms[t].made
  /\ \A o \in Terms : o < t => terms[o].made
  /\ terms' = [terms EXCEPT ![t] = constructor(c, r)]
  /\ xt' = [xt EXCEPT ![t] = NewXterm(c, r)]
  /\ lastCall' = [Call("new", t, "ok") EXCEPT !.c = c, !.r = r]
  /\ UNCHANGED <<ptys, client, sessions, nextId, reqs, reply>>

Usable(t) == terms[t].made /\ ~terms[t].disposed

\* term.spawn(...), not awaited
ApiSpawn(t) ==
  /\ OneCall
  /\ Usable(t)
  /\ CanSpawn(t)
  /\ terms' = [terms EXCEPT ![t] = spawnCall(@)]
  /\ lastCall' = Call("spawn", t, "ok")
  /\ UNCHANGED <<xt, ptys, client, sessions, nextId, reqs, reply>>

\* term.write(data)
ApiWrite(t) ==
  /\ OneCall
  /\ Usable(t)
  /\ IF writeThrows(terms[t])
       THEN /\ lastCall' = Call("write", t, "NotSpawned")
            /\ UNCHANGED ptys
       ELSE /\ ptys[terms[t].pty].wrote < MaxWrite
            /\ ptys' = write(t)
            /\ lastCall' = Call("write", t, "ok")
  /\ UNCHANGED <<terms, xt, client, sessions, nextId, reqs, reply>>

\* term.resize(c, r)
ApiResize(t, c, r) ==
  /\ OneCall
  /\ Usable(t)
  /\ IF resizeThrows(terms[t])
       THEN /\ lastCall' = [Call("resize", t, "NotSpawned") EXCEPT !.c = c, !.r = r]
            /\ UNCHANGED <<ptys, xt>>
       ELSE /\ ptys' = resizePty(t, c, r)
            /\ xt' = resizeXterm(t, c, r)
            /\ lastCall' = [Call("resize", t, "ok") EXCEPT !.c = c, !.r = r]
  /\ UNCHANGED <<terms, client, sessions, nextId, reqs, reply>>

\* term.kill()
ApiKill(t) ==
  /\ OneCall
  /\ Usable(t)
  /\ ptys' = kill(t)
  /\ lastCall' = Call("kill", t, "ok")
  /\ UNCHANGED <<terms, xt, client, sessions, nextId, reqs, reply>>

\* term.destroy()
ApiDestroy(t) ==
  /\ OneCall
  /\ Usable(t)
  /\ ptys' = kill(t)
  /\ terms' = [terms EXCEPT ![t] = destroyTerm(@)]
  /\ lastCall' = Call("destroy", t, "ok")
  /\ UNCHANGED <<xt, client, sessions, nextId, reqs, reply>>

\* await term.waitForExit(): the call throws, or the caller suspends on the
\* promise it got.
ClientWaitForExit(t) ==
  /\ UNCHANGED calls          \* one per caller: client[t].pc bounds it
  /\ Usable(t)
  /\ client[t].pc = "idle"
  /\ IF waitForExitThrows(terms[t])
       THEN /\ lastCall' = Call("waitForExit", t, "NotSpawned")
            /\ client' = [client EXCEPT ![t].pc = "threw",
                            ![t].sp = terms[t].nspawn > 0 /\ ~terms[t].failed]
       ELSE /\ lastCall' = Call("waitForExit", t, "ok")
            /\ client' = [client EXCEPT ![t].pc = "awaitExit", ![t].sp = TRUE,
                                        ![t].p = terms[t].exitPromise]
  /\ UNCHANGED <<terms, xt, ptys, sessions, nextId, reqs, reply>>

\* The awaited exit promise is resolved: the caller goes on to
\* `await term.flush()`.
ClientFlush(t) ==
  /\ client[t].pc = "awaitExit"
  /\ IF client[t].p = NoPty THEN TRUE ELSE ptys[client[t].p].promise # NoCode
  /\ xt' = flush(t, <<"client", t>>)
  /\ client' = [client EXCEPT ![t].pc = "awaitFlush", ![t].need = xt[t].handed]
  /\ UNCHANGED <<terms, ptys, lastCall, calls, sessions, nextId, reqs, reply>>

\* The flush promise is resolved: the caller reads term.getText().
ClientRead(t) ==
  /\ client[t].pc = "flushed"
  /\ client' = [client EXCEPT ![t].pc = "done", ![t].text = getText(t),
                              ![t].grid = returnedGrid(t)]
  /\ UNCHANGED <<terms, xt, ptys, lastCall, calls, sessions, nextId, reqs, reply>>

Events ==
  \/ \E t \in Terms : SpawnComplete(t)
  \/ \E t \in Terms : SpawnFail(t)
  \/ \E p \in Ptys : PtyData(p)
  \/ \E p \in Ptys, c \in ExitCodes : PtyExit(p, c)
  \/ \E t \in Terms : XtermProcess(t)

NoReq == [op |-> "idle", id |-> 0, t |-> 0, pc |-> "idle", need |-> {}]
NoReply == [op |-> "none", id |-> 0, res |-> "none", out |-> <<>>]

Init ==
  /\ terms = [t \in Terms |-> Unmade]
  /\ xt = [t \in Terms |-> NewXterm(1, 1)]
  /\ ptys = [p \in Ptys |-> NoProcess]
  /\ client = [t \in Terms |-> IdleClient]
  /\ lastCall = NoCall
  /\ calls = 0
  /\ sessions = [i \in {} |-> 0]
  /\ nextId = 1
  /\ reqs = [r \in Reqs |-> NoReq]
  /\ reply = NoReply

\* The class used directly, as its test suite does.
NextApi ==
  \/ \E t \in Terms, c \in Dims, r \in Dims : New(t, c, r)
  \/ \E t \in Terms : ApiSpawn(t)
  \/ \E t \in Terms : ApiWrite(t)
  \/ \E t \in Terms, c \in Dims, r \in Dims : ApiResize(t, c, r)
  \/ \E t \in Terms : ApiKill(t)
  \/ \E t \in Terms : ApiDestroy(t)
  \/ \E t \in Terms : ClientWaitForExit(t)
  \/ \E t \in Terms : ClientFlush(t)
  \/ \E t \in Terms : ClientRead(t)
  \/ Events

SpecApi == Init /\ [][NextApi]_vars

\* The exit event of a process that was sent a kill.
KilledExit(p) == ptys[p].killed /\ \E c \in ExitCodes : PtyExit(p, c)

\* What the event loop and the operating system guarantee: a queued xterm
\* write is handled, a resumed caller runs, a killed process exits. A
\* process that was not killed may run forever.
Fairness ==
  /\ \A t \in Terms : WF_vars(XtermProcess(t))
  /\ \A t \in Terms : WF_vars(ClientFlush(t))
  /\ \A t \in Terms : WF_vars(ClientRead(t))
  /\ \A p \in Ptys : WF_vars(KilledExit(p))

SpecApiLive == SpecApi /\ Fairness

\* ------------------------------------------------- index.ts: the registry
\* getSession(id): throws when the map has no entry.
getSessionThrows(id) == id \notin DOMAIN sessions
getSession(id) == sessions[id]

\* An id taken from the size of the map instead of the counter.
newId_fromSize == Cardinality(DOMAIN sessions) + 1

\* const id = `term-${nextId++}`
newId == nextId

\* A kill that leaves the entry in the map.
sessionsDelete_none(id) == sessions

\* A kill that clears the whole registry.
sessionsDelete_all(id) == [i \in {} |-> 0]

\* sessions.set(id, terminal) / sessions.delete(id)
sessionsSet(id, t) ==
  [i \in DOMAIN sessions \cup {id} |-> IF i = id THEN t ELSE sessions[i]]
sessionsDelete(id) == [i \in DOMAIN sessions \ {id} |-> sessions[i]]

\* Array.from(sessions.entries()).map(...) of terminal_list
listSessions ==
  {[id |-> i, cols |-> terms[sessions[i]].cols, rows |-> terms[sessions[i]].rows,
    exited |-> terms[sessions[i]].exited, exitCode |-> terms[sessions[i]].exitCode]
     : i \in DOMAIN sessions}

\* A tool call arrives; it takes the first free slot.
Begin(r) ==
  /\ reqs[r].op = "idle"
  /\ \A o \in Reqs : o < r => reqs[o].op # "idle"
  /\ OneTool
Req(op, id, t, pc) == [NoReq EXCEPT !.op = op, !.id = id, !.t = t, !.pc = pc]
Replied(op, id, res, out) == [op |-> op, id |-> id, res |-> res, out |-> out]

\* The handler throws before its first await: the call fails, nothing changed.
Fails(op, id, res) ==
  /\ reply' = Replied(op, id, res, <<>>)
  /\ UNCHANGED <<terms, xt, ptys, sessions, nextId, reqs>>

\* ---------------------------------------------- index.ts: tool handlers
\* terminal_spawn up to `await Bun.sleep(200)`: the id, the object, the
\* spawn() that is not awaited, the registration.
terminal_spawn(r, d) ==
  /\ Begin(r)
  /\ \E t \in Terms :
       /\ ~terms[t].made
       /\ \A o \in Terms : o < t => terms[o].made
       /\ CanSpawn(t)
       /\ terms' = [terms EXCEPT ![t] = [spawnCall(constructor(d[1], d[2])) EXCEPT !.sid = newId]]
       /\ xt' = [xt EXCEPT ![t] = NewXterm(d[1], d[2])]
       /\ sessions' = sessionsSet(newId, t)
       /\ reqs' = [reqs EXCEPT ![r] = Req("spawn", newId, t, "sleep")]
  /\ nextId' = nextId + 1
  /\ UNCHANGED <<ptys, client, lastCall, reply>>

\* terminal_write up to `await Bun.sleep(100)`
terminal_write(r, id) ==
  /\ Begin(r)
  /\ IF getSessionThrows(id) THEN Fails("write", id, "SessionNotFound")
     ELSE LET t == getSession(id) IN
       IF writeThrows(terms[t])
         THEN Fails("write", id, "NotSpawned")
         ELSE /\ ptys[terms[t].pty].wrote < MaxWrite
              /\ ptys' = write(t)
              /\ reqs' = [reqs EXCEPT ![r] = Req("write", id, t, "sleep")]
              /\ UNCHANGED <<terms, xt, sessions, nextId, reply>>
  /\ UNCHANGED <<client, lastCall>>

\* terminal_screenshot up to `await terminal.flush()`
terminal_screenshot(r, id) ==
  /\ Begin(r)
  /\ IF getSessionThrows(id) THEN Fails("screenshot", id, "SessionNotFound")
     ELSE LET t == getSession(id) IN
       /\ xt' = flush(t, <<"req", r>>)
       /\ reqs' = [reqs EXCEPT ![r] =
                     [Req("screenshot", id, t, "flush") EXCEPT !.need = xt[t].handed]]
       /\ UNCHANGED <<terms, ptys, sessions, nextId, reply>>
  /\ UNCHANGED <<client, lastCall>>

\* terminal_resize up to `await Bun.sleep(50)`
terminal_resize(r, id, c, rw) ==
  /\ Begin(r)
  /\ IF getSessionThrows(id) THEN Fails("resize", id, "SessionNotFound")
     ELSE LET t == getSession(id) IN
       /\ ptys' = resizePty(t, c, rw)
       /\ xt' = resizeXterm(t, c, rw)
       /\ reqs' = [reqs EXCEPT ![r] = Req("resize", id, t, "sleep")]
       /\ UNCHANGED <<terms, sessions, nextId, reply>>
  /\ UNCHANGED <<client, lastCall>>

\* terminal_kill: destroy(), sessions.delete(), the reply; no await.
terminal_kill(r, id) ==
  /\ Begin(r)
  /\ IF getSessionThrows(id) THEN Fails("kill", id, "SessionNotFound")
     ELSE LET t == getSession(id) IN
       /\ ptys' = kill(t)
       /\ terms' = [terms EXCEPT ![t] = destroyTerm(@)]
       /\ sessions' = sessionsDelete(id)
       /\ reply' = Replied("kill", id, "ok", <<>>)
       /\ UNCHANGED <<xt, nextId, reqs>>
  /\ UNCHANGED <<client, lastCall>>

\* terminal_list: no await.
terminal_list(r) ==
  /\ Begin(r)
  /\ reply' = Replied("list", 0, "ok", listSessions)
  /\ UNCHANGED <<terms, xt, ptys, sessions, nextId, reqs, client, lastCall>>

\* terminal_wait up to `await Bun.sleep(ms ?? 500)`
terminal_wait(r, id) ==
  /\ Begin(r)
  /\ IF getSessionThrows(id) THEN Fails("wait", id, "SessionNotFound")
     ELSE /\ reqs' = [reqs EXCEPT ![r] = Req("wait", id, getSession(id), "sleep")]
          /\ UNCHANGED <<terms, xt, ptys, sessions, nextId, reply>>
  /\ UNCHANGED <<client, lastCall>>

\* The timer of a handler fires: it goes on to `await terminal.flush()`.
SleepDone(r) ==
  /\ reqs[r].pc = "sleep"
  /\ xt' = flush(reqs[r].t, <<"req", r>>)
  /\ reqs' = [reqs EXCEPT ![r].pc = "flush", ![r].need = xt[reqs[r].t].handed]
  /\ UNCHANGED <<terms, ptys, client, lastCall, calls, sessions, nextId, reply>>

\* A screenshot whose grid was read while the screen was still blank.
Reply_blankGrid(r) ==
  LET q == reqs[r] IN
  CASE q.op = "spawn"      -> <<q.id, terms[q.t].cols, terms[q.t].rows>>
    [] q.op = "screenshot" ->
         <<getText(q.t),
           [i \in 1..terms[q.t].rows |-> [j \in 1..terms[q.t].cols |-> CellOf(Blank, j - 1)]]>>
    [] q.op = "wait"       -> getText(q.t)
    [] OTHER               -> <<>>

\* What a handler returns after its flush.
Reply(r) ==
  LET q == reqs[r] IN
  CASE q.op = "spawn"      -> <<q.id, terms[q.t].cols, terms[q.t].rows>>
    [] q.op = "screenshot" -> <<getText(q.t), getCellGrid(q.t)>>
    [] q.op = "wait"       -> getText(q.t)
    [] OTHER               -> <<>>

\* The flush promise of a handler is resolved: it reads what it returns
\* and returns it, without another await.
Finish(r) ==
  /\ reqs[r].pc = "flushed"
  /\ reply' = Replied(reqs[r].op, reqs[r].id, "ok", Reply(r))
  /\ reqs' = [reqs EXCEPT ![r] = NoReq]
  /\ UNCHANGED <<terms, xt, ptys, client, lastCall, calls, sessions, nextId>>

\* The MCP server: tool calls arrive while earlier ones are suspended.
Next ==
  \/ \E r \in Reqs, d \in SpawnDims : terminal_spawn(r, d)
  \/ \E r \in Reqs, id \in Ids : terminal_write(r, id)
  \/ \E r \in Reqs, id \in Ids : terminal_screenshot(r, id)
  \/ \E r \in Reqs, id \in Ids, c \in Dims, rw \in Dims : terminal_resize(r, id, c, rw)
  \/ \E r \in Reqs, id \in Ids : terminal_kill(r, id)
  \/ \E r \in Reqs : terminal_list(r)
  \/ \E r \in Reqs, id \in Ids : terminal_wait(r, id)
  \/ \E r \in Reqs : SleepDone(r)
  \/ \E r \in Reqs : Finish(r)
  \/ Events

Spec == Init /\ [][Next]_vars

\* ------------------------------------ index.ts: unescape of terminal_write
\* A string is the sequence of its character codes.
Ch == [bsl |-> 92, r |-> 114, n |-> 110, t |-> 116, x |-> 120, e |-> 101,
       CR |-> 13, LF |-> 10, TAB |-> 9, ESC |-> 27]
Chars == {92, 120, 53, 99, 101, 110}       \* \ x 5 c e n
Strings == UNION {[1..k -> Chars] : k \in 0..MaxLen}

\* s.replace(/\\c/g, rep): every backslash followed by c, left to right.
RECURSIVE replaceLit(_, _, _)
replaceLit(s, c, rep) ==
  IF Len(s) < 2 THEN s
  ELSE IF s[1] = Ch.bsl /\ s[2] = c
         THEN <<rep>> \o replaceLit(SubSeq(s, 3, Len(s)), c, rep)
         ELSE <<s[1]>> \o replaceLit(Tail(s), c, rep)

\* [0-9a-fA-F] and parseInt(hex, 16) of one digit
IsHex(c) == c \in (48..57) \cup (97..102) \cup (65..70)
parseHex(c) == IF c <= 57 THEN c - 48 ELSE IF c >= 97 THEN c - 87 ELSE c - 55

\* s.replace(/\\x([0-9a-fA-F]{2})/g, (_, hex) => String.fromCharCode(parseInt(hex, 16)))
RECURSIVE replaceHex(_)
replaceHex(s) ==
  IF Len(s) < 4 THEN s
  ELSE IF s[1] = Ch.bsl /\ s[2] = Ch.x /\ IsHex(s[3]) /\ IsHex(s[4])
         THEN <<16 * parseHex(s[3]) + parseHex(s[4])>> \o replaceHex(SubSeq(s, 5, Len(s)))
         ELSE <<s[1]>> \o replaceHex(Tail(s))

\* The chain of replace calls, in the order of the code: \r \n \t \xHH \e.
unescape(data) ==
  replaceLit(replaceHex(replaceLit(replaceLit(replaceLit(data,
    Ch.r, Ch.CR), Ch.n, Ch.LF), Ch.t, Ch.TAB)), Ch.e, Ch.ESC)

\* ------------------------------------------- terminal.ts: colour resolution
\* v.toString(16).padStart(2, "0") of a byte
Hex2(v) == <<v \div 16, v % 16>>

levels == <<0, 95, 135, 175, 215, 255>>

Standard16 ==
  << <<0,0,0,0,0,0>>,       <<12,13,0,0,0,0>>,     <<0,0,12,13,0,0>>,     <<12,13,12,13,0,0>>,
     <<0,0,0,0,14,14>>,     <<12,13,0,0,12,13>>,   <<0,0,12,13,12,13>>,   <<14,5,14,5,14,5>>,
     <<7,15,7,15,7,15>>,    <<15,15,0,0,0,0>>,     <<0,0,15,15,0,0>>,     <<15,15,15,15,0,0>>,
     <<5,12,5,12,15,15>>,   <<15,15,0,0,15,15>>,   <<0,0,15,15,15,15>>,   <<15,15,15,15,15,15>> >>

\* (In the loops below the test Len(pushed) > 0 is always true: it makes the
\* array be built before the next iteration, as the code builds it.)
\* An innermost loop that pushes blue-green-red instead of red-green-blue.
RECURSIVE cubeLoopB_bgr(_, _, _, _)
cubeLoopB_bgr(colors, r, g, b) ==
  IF b >= 6 THEN colors
  ELSE LET pushed == Append(colors, Hex2(levels[b + 1]) \o Hex2(levels[g + 1])
                                       \o Hex2(levels[r + 1]))
       IN IF Len(pushed) > 0 THEN cubeLoopB_bgr(pushed, r, g, b + 1) ELSE pushed

\* for (b = 0; b < 6; b++) colors.push(`#${levels[r]}${levels[g]}${levels[b]}`)
RECURSIVE cubeLoopB(_, _, _, _)
cubeLoopB(colors, r, g, b) ==
  IF b >= 6 THEN colors
  ELSE LET pushed == Append(colors, Hex2(levels[r + 1]) \o Hex2(levels[g + 1])
                                       \o Hex2(levels[b + 1]))
       IN IF Len(pushed) > 0 THEN cubeLoopB(pushed, r, g, b + 1) ELSE pushed

\* for (g = 0; g < 6; g++) { the b loop }
RECURSIVE cubeLoopG(_, _, _)
cubeLoopG(colors, r, g) ==
  IF g >= 6 THEN colors
  ELSE LET pushed == cubeLoopB(colors, r, g, 0)
       IN IF Len(pushed) > 0 THEN cubeLoopG(pushed, r, g + 1) ELSE pushed

\* for (r = 0; r < 6; r++) { the g loop }
RECURSIVE cubeLoopR(_, _)
cubeLoopR(colors, r) ==
  IF r >= 6 THEN colors
  ELSE LET pushed == cubeLoopG(colors, r, 0)
       IN IF Len(pushed) > 0 THEN cubeLoopR(pushed, r + 1) ELSE pushed

\* for i < 24: v = 8 + i * 10; colors.push(`#${hex}${hex}${hex}`)
RECURSIVE grayLoop(_, _)
grayLoop(colors, i) ==
  IF i >= 24 THEN colors
  ELSE LET v   == 8 + i * 10
           hex == Hex2(v)
           pushed == Append(colors, hex \o hex \o hex)
       IN IF Len(pushed) > 0 THEN grayLoop(pushed, i + 1) ELSE pushed

PALETTE_256 == grayLoop(cubeLoopR(Standard16, 0), 0)

\* An RGB branch that takes the channels in the wrong order.
rgbHex_bgr(color) ==
  Hex2(color % 256) \o Hex2((color \div 256) % 256) \o Hex2((color \div 65536) % 256)

\* r = (color >> 16) & 0xff, g = (color >> 8) & 0xff, b = color & 0xff
rgbHex(color) ==
  Hex2((color \div 65536) % 256) \o Hex2((color \div 256) % 256) \o Hex2(color % 256)

\* An interpreter cell: per channel the colour mode and the raw colour, and
\* the inverse attribute; NoCell is the undefined cell.
RawColours ==
  {[mode |-> "default", color |-> 0]}
    \cup {[mode |-> "palette", color |-> i] : i \in {-1, 0, 15, 16, 196, 231, 232, 255, 256}}
    \cup {[mode |-> "rgb", color |-> v] : v \in {0, 1193046, 16777215}}
    \cup {[mode |-> "other", color |-> 0]}
XtermCells == [fg : RawColours, bg : RawColours, inverse : BOOLEAN, present : {TRUE}]
NoCell == [fg |-> [mode |-> "default", color |-> 0], bg |-> [mode |-> "default", color |-> 0],
           inverse |-> FALSE, present |-> FALSE]

channelDefault(type) == IF type = "fg" THEN DEFAULT_FG ELSE DEFAULT_BG

\* resolveColor(cell, type)
resolveColor(cell, type) ==
  IF ~cell.present THEN (IF type = "fg" THEN DEFAULT_FG ELSE <<0, 0, 0, 0, 0, 0>>)
  ELSE LET raw == cell[type] IN
    IF raw.mode = "default" THEN channelDefault(type)
    ELSE IF raw.mode = "palette"
      THEN (IF raw.color + 1 \in DOMAIN PALETTE_256 THEN PALETTE_256[raw.color + 1]
                                                     ELSE channelDefault(type))
    ELSE IF raw.mode = "rgb" THEN rgbHex(raw.color)
    ELSE channelDefault(type)

\* ------------------------------------------------ renderer.ts: renderToPng
\* ctx.fillStyle = "#1e1e1e" of the canvas, and the literal the cell's
\* background is compared with.
CANVAS_BG == <<1, 14, 1, 14, 1, 14>>
GridColours == {DEFAULT_FG, DEFAULT_BG, <<15, 15, 0, 0, 0, 0>>}
GridCells == [fg : GridColours, bg : GridColours, inverse : BOOLEAN]

\* A rasterizer that swaps an inverse cell twice.
effective_twice(cell) == [fg |-> cell.fg, bg |-> cell.bg]

\* fg = cell.inverse ? cell.bg : cell.fg; bg = cell.inverse ? cell.fg : cell.bg
effective(cell) ==
  [fg |-> IF cell.inverse THEN cell.bg ELSE cell.fg,
   bg |-> IF cell.inverse THEN cell.fg ELSE cell.bg]

\* if (bg !== "#1e1e1e") fillRect(...)
paintsBackground(bg) == bg # CANVAS_BG

\* DEFAULT_OPTIONS. cellWidth is 8.4: it is kept exact as 84 tenths, and the
\* sums below are formed in tenths before Math.ceil divides them.
cellWidthTenths == 84
cellHeight == 18
padding == 8

MaxGrid == 3

\* Math.ceil(a / b) for a >= 0, b > 0
ceil(a, b) == (a + b - 1) \div b

\* A canvas whose width is truncated instead of rounded up.
canvasWidth_floor(cols) == (cols * cellWidthTenths + padding * 2 * 10) \div 10

\* const width = Math.ceil(cols * opts.cellWidth + opts.padding * 2)
canvasWidth(cols) == ceil(cols * cellWidthTenths + padding * 2 * 10, 10)

\* const height = Math.ceil(rows * opts.cellHeight + opts.padding * 2)
canvasHeight(rows) == ceil(rows * cellHeight + padding * 2, 1)

\* for (y = 0; y < rows && y < grid.length; y++)
\*   for (x = 0; x < cols && x < row.length; x++)  ... the cells visited
cellsDrawn(grid, cols, rows) ==
  {xy \in (0..MaxGrid) \X (0..MaxGrid) :
     /\ xy[2] < rows /\ xy[2] < Len(grid)
     /\ xy[1] < cols /\ xy[1] < Len(grid[xy[2] + 1])}

\* makeGrid(cols, rows) of the renderer's tests: rows of default cells.
makeGrid(c, r) ==
  [y \in 1..r |-> [x \in 1..c |-> [fg |-> DEFAULT_FG, bg |-> DEFAULT_BG, inverse |-> FALSE]]]

Grids == {makeGrid(c, r) : c \in 0..MaxGrid, r \in 0..MaxGrid}

\* ------------------------------------------------ the functions on their own
\* The input of one evaluation, then the evaluation; lastCall holds both.
Unescape ==
  /\ lastCall.op = "data"
  /\ lastCall' = [op |-> "unescape", arg |-> lastCall.arg, out |-> unescape(lastCall.arg)]
  /\ UNCHANGED <<terms, xt, ptys, client, calls, sessions, nextId, reqs, reply>>

ResolveColor(type) ==
  /\ lastCall.op = "cell"
  /\ lastCall' = [op |-> "resolveColor", arg |-> lastCall.arg, type |-> type,
                  out |-> resolveColor(lastCall.arg, type)]
  /\ UNCHANGED <<terms, xt, ptys, client, calls, sessions, nextId, reqs, reply>>

RenderCell ==
  /\ lastCall.op = "gridcell"
  /\ LET e == effective(lastCall.arg) IN
       lastCall' = [op |-> "render", arg |-> lastCall.arg, fg |-> e.fg, bg |-> e.bg,
                    painted |-> paintsBackground(e.bg)]
  /\ UNCHANGED <<terms, xt, ptys, client, calls, sessions, nextId, reqs, reply>>

RenderToPng ==
  /\ lastCall.op = "grid"
  /\ lastCall' = [op |-> "renderToPng", arg |-> lastCall.arg,
                  cols |-> lastCall.cols, rows |-> lastCall.rows,
                  width |-> canvasWidth(lastCall.cols),
                  height |-> canvasHeight(lastCall.rows),
                  drawn |-> cellsDrawn(lastCall.arg, lastCall.cols, lastCall.rows)]
  /\ UNCHANGED <<terms, xt, ptys, client, calls, sessions, nextId, reqs, reply>>

InitPure ==
  /\ lastCall \in {[op |-> "data", arg |-> s] : s \in Strings}
                    \cup {[op |-> "cell", arg |-> c] : c \in XtermCells \cup {NoCell}}
                    \cup {[op |-> "gridcell", arg |-> c] : c \in GridCells}
                    \cup {[op |-> "grid", arg |-> g, cols |-> c, rows |-> r] :
                            g \in Grids, c \in 0..MaxGrid, r \in 0..MaxGrid}
  /\ terms = [t \in Terms |-> Unmade]
  /\ xt = [t \in Terms |-> NewXterm(1, 1)]
  /\ ptys = [p \in Ptys |-> NoProcess]
  /\ client = [t \in Terms |-> IdleClient]
  /\ calls = 0
  /\ sessions = [i \in {} |-> 0]
  /\ nextId = 1
  /\ reqs = [r \in Reqs |-> NoReq]
  /\ reply = NoReply

NextPure ==
  \/ Unescape
  \/ \E type \in {"fg", "bg"} : ResolveColor(type)
  \/ RenderCell
  \/ RenderToPng

SpecPure == InitPure /\ [][NextPure]_vars

\* ============================================================= properties
Made == {t \in Terms : terms[t].made}
TokensOf(p) == {<<p, k>> : k \in 1..ptys[p].emitted}
Range(f) == {f[i] : i \in DOMAIN f}
\* This step is a call of the class API / a tool call (calls counts them, but
\* for the waitForExit() of a caller, which client records).
IsCall ==
  \/ calls' = calls + 1
  \/ \E t \in Terms : client[t].pc = "idle" /\ client'[t].pc # "idle"
PerSessionOps == {"write", "screenshot", "resize", "kill", "wait"}
\* The tool and the id of the tool call this step starts: a handler that
\* suspends takes a slot, one that returns or throws at once leaves a reply.
Started ==
  IF \E r \in Reqs : reqs[r].op = "idle" /\ reqs'[r].op # "idle"
    THEN LET r == CHOOSE r \in Reqs : reqs[r].op = "idle" /\ reqs'[r].op # "idle"
         IN <<reqs'[r].op, reqs'[r].id>>
    ELSE <<reply'.op, reply'.id>>

\* C1: a flush promise is resolved only when every chunk that was handed to
\* xterm.write before the flush() call has been parsed into the screen buffer.
C1_FlushAfterEarlierWrites ==
  /\ \A r \in Reqs : reqs[r].pc = "flushed" => reqs[r].need \subseteq xt[reqs[r].t].proc
  /\ \A t \in Terms : client[t].pc \in {"flushed", "done"} => client[t].need \subseteq xt[t].proc

C1_Witness ==
  \E r \in Reqs : reqs[r].pc = "flushed" /\ reqs[r].need # {}


\* C2: after spawn() has been invoked with a command that prints text fitting
\* on the screen and exits, waitForExit() does not throw, and once it and the
\* flush() after it have been awaited, getText() holds every chunk printed.
C2_WaitForExitThenFlushShowsOutput ==
  \A t \in Terms :
    /\ client[t].pc = "threw" => ~client[t].sp
    /\ (client[t].pc = "done" /\ Cardinality(client[t].need) <= terms[t].rows)
         => TokensOf(client[t].p) \subseteq Range(client[t].text)

\* The second half of C2 alone: it holds of every caller that got a promise.
C2_OutputShownOnceSpawned ==
  \A t \in Terms :
    (client[t].pc = "done" /\ Cardinality(client[t].need) <= terms[t].rows)
      => TokensOf(client[t].p) \subseteq Range(client[t].text)

\* C3: a new session has exited = false and exitCode = null; in the step in
\* which a process exits with code c, its exit promise is resolved to c and
\* the session has exited = true and exitCode = c.
C3_ExitStatus ==
  [][/\ \A t \in Terms : (~terms[t].made /\ terms'[t].made)
          => (~terms'[t].exited /\ terms'[t].exitCode = NoCode)
     /\ \A p \in Ptys : (ptys[p].owner # 0 /\ ptys[p].code = NoCode /\ ptys'[p].code # NoCode)
          => /\ ptys'[p].promise = ptys'[p].code
             /\ terms'[ptys[p].owner].exited
             /\ terms'[ptys[p].owner].exitCode = ptys'[p].code]_vars

C3_Witness ==
  \E p \in Ptys : /\ ptys[p].code = 42 /\ ptys[p].promise = 42
                  /\ terms[ptys[p].owner].exited /\ terms[ptys[p].owner].exitCode = 42

C6_Isolation ==
  \A t \in Made :
    /\ \A tok \in xt[t].handed : ptys[tok[1]].owner = t
    /\ \A i \in DOMAIN getText(t) :
         getText(t)[i] # Blank => ptys[getText(t)[i][1]].owner = t

C6_Witness ==
  \E t1 \in Made, t2 \in Made :
    /\ t1 # t2
    /\ \E i \in DOMAIN getText(t1) : getText(t1)[i] # Blank
    /\ \E i \in DOMAIN getText(t2) : getText(t2)[i] # Blank

\* C7: getCellGrid() always has `rows` rows of `cols` cells each.
C7_GridHasConstructorShape ==
  \A t \in Made :
    /\ Len(getCellGrid(t)) = terms[t].rows
    /\ \A y \in 1..terms[t].rows : Len(getCellGrid(t)[y]) = terms[t].cols

\* C8: getText() always has `rows` lines, line y being screen row y.
C8_TextHasRowsLines ==
  \A t \in Made :
    /\ Len(getText(t)) = terms[t].rows
    /\ \A y \in 1..terms[t].rows :
         LET b == xt[t].buf IN
           (y <= b.xr /\ y <= Len(getText(t))) => getText(t)[y] = b.lines[b.ybase + y]

\* C9: a per-session tool call whose id is not in the registry (never created,
\* or killed before) fails with the session-not-found error and leaves the
\* registry, the id counter, every session and every suspended call as they were.
C9_UnknownIdFails ==
  [][(/\ IsCall
      /\ Started[1] \in PerSessionOps
      /\ \/ Started[2] \notin DOMAIN sessions
         \/ \E t \in Terms : terms[t].sid = Started[2] /\ terms[t].disposed)
     => /\ reply'.res = "SessionNotFound"
        /\ reply'.op = Started[1] /\ reply'.id = Started[2]
        /\ UNCHANGED <<sessions, nextId, terms, xt, ptys, reqs>>]_vars

C9_Witness ==
  /\ reply.res = "SessionNotFound"
  /\ reply.op \in PerSessionOps
  /\ \E t \in Terms : terms[t].sid = reply.id /\ terms[t].disposed
  /\ reply.id \notin DOMAIN sessions

\* C10: ids are handed out in increasing order and never twice: sessions made
\* at different times have different ids, also when the earlier one was killed,
\* and the registry holds each live session under its own id.
C10_IdsNeverReused ==
  /\ \A t1 \in Made, t2 \in Made : t1 < t2 => terms[t1].sid < terms[t2].sid
  /\ \A t \in Made : terms[t].sid < nextId
  /\ \A i \in DOMAIN sessions : terms[sessions[i]].sid = i

C10_Witness ==
  \E t1 \in Made, t2 \in Made :
    /\ terms[t1].sid = 1 /\ terms[t1].disposed /\ 1 \notin DOMAIN sessions
    /\ terms[t2].sid = 2 /\ 2 \in DOMAIN sessions

\* C11: a session is in the registry only when its construction, the start of
\* its PTY process included, has succeeded: no registered session has a
\* spawn() in flight, a failed spawn() or no PTY.
C11_RegistryHoldsOnlySpawned ==
  \A i \in DOMAIN sessions :
    LET tm == terms[sessions[i]] IN
      tm.spawning = 0 /\ ~tm.failed /\ tm.pty # NoPty

\* C12: a terminal_spawn call whose spawn() was rejected does not report
\* success: no reply "ok" of a spawn names a session whose spawn() failed.
C12_SpawnFailureSurfaced ==
  (reply.op = "spawn" /\ reply.res = "ok")
    => \A t \in Terms : terms[t].sid = reply.id => ~terms[t].failed

\* C14: exited and exitCode are write-once: once set they keep their value in
\* every later step, and they are set only by the exit of a process.
C14_ExitWriteOnce ==
  [][\A t \in Terms :
       /\ terms[t].exited => (terms'[t].exited /\ terms'[t].exitCode = terms[t].exitCode)
       /\ (~terms[t].exited /\ terms[t].made /\ terms'[t].exited)
            => \E p \in Ptys : ptys[p].owner = t /\ ptys[p].code = NoCode
                               /\ ptys'[p].code = terms'[t].exitCode]_vars

\* C15: a session has one PTY and one exit future for its whole lifetime: at
\* most one PTY process feeds its interpreter, and the future a caller of
\* waitForExit() was given is the one the session holds.
C15_OnePtyOneFuture ==
  \A t \in Terms :
    /\ Cardinality({p \in Ptys : ptys[p].owner = t}) <= 1
    /\ client[t].pc = "awaitExit" => client[t].p = terms[t].exitPromise

\* C16: a kill request on a registered id destroys the session (its PTY is
\* sent a kill when there is one, no PTY is touched when there is none, the
\* interpreter is released), removes the id and no other from the registry
\* and from terminal_list; a killed id is never in the registry again, and a
\* later per-session call on it fails with the session-not-found error.
C16_KillDestroysAndRemoves ==
  /\ [](\A t \in Terms : (terms[t].disposed /\ terms[t].sid # 0)
                            => terms[t].sid \notin DOMAIN sessions)
  /\ [][/\ (IsCall /\ Started[1] = "kill" /\ Started[2] \in DOMAIN sessions)
             => LET id == Started[2]
                    t  == sessions[id]
                IN /\ reply'.res = "ok"
                   /\ DOMAIN sessions' = DOMAIN sessions \ {id}
                   /\ \A j \in DOMAIN sessions' : sessions'[j] = sessions[j]
                   /\ \A e \in listSessions' : e.id # id
                   /\ terms'[t].disposed
                   /\ IF terms[t].pty # NoPty
                        THEN ptys' = [ptys EXCEPT ![terms[t].pty].killed = TRUE]
                        ELSE ptys' = ptys
        /\ (IsCall /\ Started[1] \in PerSessionOps
              /\ \E t \in Terms : terms[t].sid = Started[2] /\ terms[t].disposed)
             => reply'.res = "SessionNotFound"]_vars

C16_Witness ==
  /\ reply.op = "kill" /\ reply.res = "ok"
  /\ \E t \in Terms : /\ terms[t].sid = reply.id /\ terms[t].disposed
                      /\ terms[t].pty # NoPty /\ ptys[terms[t].pty].killed
  /\ DOMAIN sessions # {} /\ reply.id \notin DOMAIN sessions

\* The text in which each escape is replaced once, read left to right: what
\* is left of a replaced escape is not read again.
RECURSIVE SinglePass(_)
SinglePass(s) ==
  IF s = <<>> THEN <<>>
  ELSE IF Len(s) >= 2 /\ s[1] = 92 /\ s[2] \in {114, 110, 116, 101}
    THEN <<CASE s[2] = 114 -> 13 [] s[2] = 110 -> 10 [] s[2] = 116 -> 9 [] OTHER -> 27>>
           \o SinglePass(SubSeq(s, 3, Len(s)))
  ELSE IF Len(s) >= 4 /\ s[1] = 92 /\ s[2] = 120 /\ IsHex(s[3]) /\ IsHex(s[4])
    THEN <<16 * parseHex(s[3]) + parseHex(s[4])>> \o SinglePass(SubSeq(s, 5, Len(s)))
  ELSE <<s[1]>> \o SinglePass(Tail(s))

\* C13: the text handed to write is the data in which each \r, \n, \t, \e and
\* \xHH is replaced by its control character and everything else is unchanged.
C13_UnescapeReplacesEachEscape ==
  lastCall.op = "unescape" => lastCall.out = SinglePass(lastCall.arg)

\* The k-th byte (1: red, 2: green, 3: blue) a colour string encodes.
Byte(c, k) == c[2 * k - 1] * 16 + c[2 * k]
IsColour(c) == Len(c) = 6 /\ \A i \in 1..6 : c[i] \in 0..15

\* C18: the palette has 256 entries; entry 16 + 36r + 6g + b is the colour
\* (L[r], L[g], L[b]) of the cube, entry 232 + i the gray 8 + 10i; resolving a
\* palette index gives the entry of the table, whatever was resolved before.
C18_PaletteTable ==
  LET L == <<0, 95, 135, 175, 215, 255>> IN
  /\ Len(PALETTE_256) = 256
  /\ \A i \in 1..256 : IsColour(PALETTE_256[i])
  /\ \A r \in 0..5, g \in 0..5, b \in 0..5 :
       LET e == PALETTE_256[16 + 36 * r + 6 * g + b + 1]
       IN Byte(e, 1) = L[r + 1] /\ Byte(e, 2) = L[g + 1] /\ Byte(e, 3) = L[b + 1]
  /\ \A i \in 0..23 :
       LET e == PALETTE_256[232 + i + 1]
       IN Byte(e, 1) = 8 + 10 * i /\ Byte(e, 2) = 8 + 10 * i /\ Byte(e, 3) = 8 + 10 * i
  /\ (/\ lastCall.op = "resolveColor" /\ lastCall.arg.present
      /\ lastCall.arg[lastCall.type].mode = "palette"
      /\ lastCall.arg[lastCall.type].color \in 0..255)
       => lastCall.out = PALETTE_256[lastCall.arg[lastCall.type].color + 1]

C18_Witness ==
  /\ lastCall.op = "resolveColor" /\ lastCall.type = "fg"
  /\ lastCall.arg.fg = [mode |-> "palette", color |-> 196]
  /\ lastCall.out = <<15, 15, 0, 0, 0, 0>>

\* C19: a Default raw colour resolves to the light-gray default (foreground)
\* or the dark default (background), two different colours; a palette index
\* outside 0..255 resolves to the same default of its channel; an RGB raw
\* colour v resolves to the bytes (v >> 16) & 255, (v >> 8) & 255, v & 255;
\* the result depends on the channel asked for only.
C19_ResolveRules ==
  /\ DEFAULT_FG # DEFAULT_BG
  /\ \A k \in 1..3 : Byte(DEFAULT_FG, k) = 192 /\ Byte(DEFAULT_BG, k) = 30
  /\ (lastCall.op = "resolveColor" /\ lastCall.arg.present)
       => LET raw == lastCall.arg[lastCall.type]
              def == IF lastCall.type = "fg" THEN DEFAULT_FG ELSE DEFAULT_BG
              out == lastCall.out
          IN /\ raw.mode = "default" => out = def
             /\ (raw.mode = "palette" /\ raw.color \notin 0..255) => out = def
             /\ raw.mode = "rgb"
                  => /\ IsColour(out)
                     /\ Byte(out, 1) = (raw.color \div 65536) % 256
                     /\ Byte(out, 2) = (raw.color \div 256) % 256
                     /\ Byte(out, 3) = raw.color % 256

C19_Witness ==
  /\ lastCall.op = "resolveColor" /\ lastCall.type = "bg"
  /\ lastCall.arg.bg = [mode |-> "rgb", color |-> 1193046]
  /\ lastCall.arg.fg = [mode |-> "palette", color |-> 256]
  /\ lastCall.out = <<1, 2, 3, 4, 5, 6>>

\* C20: the rasterizer's effective colours of a cell are the cell's colours,
\* swapped once when the cell is inverse; the background rectangle is painted
\* exactly when the effective background is not the canvas background; the
\* resolver gives an inverse cell the colours it gives the same cell not inverse.
C20_InverseSwapOnce ==
  /\ lastCall.op = "render"
       => LET c == lastCall.arg IN
            /\ lastCall.fg = (IF c.inverse THEN c.bg ELSE c.fg)
            /\ lastCall.bg = (IF c.inverse THEN c.fg ELSE c.bg)
            /\ lastCall.painted <=> (lastCall.bg # <<1, 14, 1, 14, 1, 14>>)
  /\ lastCall.op = "resolveColor"
       => lastCall.out = resolveColor([lastCall.arg EXCEPT !.inverse = ~@], lastCall.type)

C20_Witness ==
  /\ lastCall.op = "render" /\ lastCall.arg.inverse
  /\ lastCall.arg.fg = <<12, 0, 12, 0, 12, 0>> /\ lastCall.arg.bg = <<1, 14, 1, 14, 1, 14>>
  /\ lastCall.bg = <<12, 0, 12, 0, 12, 0>> /\ lastCall.painted

\* C17: a waitForExit() promise and a flush() promise that are pending on a
\* destroyed session are settled in the end.
C17_PendingSettlesAfterDestroy ==
  \A t \in Terms :
    /\ (terms[t].disposed /\ client[t].pc = "awaitExit") ~> (client[t].pc # "awaitExit")
    /\ (terms[t].disposed /\ client[t].pc = "awaitFlush") ~> (client[t].pc # "awaitFlush")

\* The same of the sessions on which spawn() was called once: their promises
\* are settled.
C17_SettlesWhenSpawnedOnce ==
  \A t \in Terms :
    /\ (terms[t].disposed /\ terms[t].nspawn <= 1 /\ client[t].pc = "awaitExit")
         ~> (client[t].pc # "awaitExit")
    /\ (terms[t].disposed /\ client[t].pc = "awaitFlush") ~> (client[t].pc # "awaitFlush")

\* C21: the canvas is ceil(cols * cellWidth + 2 * padding) wide and
\* ceil(rows * cellHeight + 2 * padding) high: each is the least integer not
\* below the sum. With the default options both are positive, also for cols = 0
\* or rows = 0, where no cell is drawn; and each grows strictly with cols, rows.
C21_CanvasSize ==
  lastCall.op = "renderToPng" =>
    LET w == lastCall.width
        h == lastCall.height
        sumW == lastCall.cols * 84 + 160
        sumH == lastCall.rows * 18 + 16
    IN /\ 10 * w >= sumW /\ 10 * (w - 1) < sumW
       /\ h >= sumH /\ h - 1 < sumH
       /\ w > 0 /\ h > 0
       /\ (lastCall.cols = 0 \/ lastCall.rows = 0 \/ lastCall.arg = <<>>)
            => lastCall.drawn = {}
       /\ canvasWidth(lastCall.cols + 1) > w
       /\ canvasHeight(lastCall.rows + 1) > h

C21_Witness ==
  /\ lastCall.op = "renderToPng"
  /\ lastCall.cols = 0 /\ lastCall.rows = 0 /\ lastCall.arg = <<>>
  /\ lastCall.width = 16 /\ lastCall.height = 16
  /\ lastCall.drawn = {}

\* C22: the set of registered ids changes only in a spawn call, which adds
\* exactly one id that was never given before, and in a kill call, which
\* removes exactly the id it names; write, screenshot, resize, wait, list and
\* every PTY data or exit event leave the registry as it is. A session whose
\* process has exited stays listed, with exited = true, until it is killed.
C22_RegistryFrame ==
  /\ [][\/ sessions' = sessions
        \/ /\ IsCall /\ Started[1] = "spawn"
           /\ Started[2] \notin DOMAIN sessions
           /\ \A t \in Terms : terms[t].sid # Started[2]
           /\ DOMAIN sessions' = DOMAIN sessions \cup {Started[2]}
           /\ \A j \in DOMAIN sessions : sessions'[j] = sessions[j]
        \/ /\ IsCall /\ Started[1] = "kill" /\ reply'.res = "ok"
           /\ Started[2] \in DOMAIN sessions
           /\ DOMAIN sessions' = DOMAIN sessions \ {Started[2]}
           /\ \A j \in DOMAIN sessions' : sessions'[j] = sessions[j]]_vars
  /\ [](\A t \in Terms : (terms[t].sid # 0 /\ terms[t].exited /\ ~terms[t].disposed)
          => /\ terms[t].sid \in DOMAIN sessions
             /\ \E e \in listSessions : e.id = terms[t].sid /\ e.exited)

C22_Witness ==
  /\ reply.op = "list" /\ reply.res = "ok"
  /\ \E e \in reply.out : e.exited /\ e.id \in DOMAIN sessions
  /\ \E p \in Ptys : ptys[p].owner # 0 /\ ptys[p].code # NoCode

\* C23: when a screenshot or a wait call returns, every chunk that had been
\* handed to the interpreter before the call issued its flush has been parsed
\* into the buffer, and the snapshot it returns is read from that buffer in
\* the step in which the handler resumes: the buffer does not change between
\* the resumption and the read.
C23_SnapshotAfterFlush ==
  [][\A r \in Reqs :
       (reqs[r].pc = "flushed" /\ reqs[r].op \in {"screenshot", "wait"} /\ reqs'[r].op = "idle")
         => LET t == reqs[r].t
                text == IF reqs[r].op = "wait" THEN reply'.out ELSE reply'.out[1]
            IN /\ reqs[r].need \subseteq xt[t].proc
               /\ xt' = xt
               /\ reply'.op = reqs[r].op /\ reply'.res = "ok"
               /\ text = getText(t)
               /\ reqs[r].op = "screenshot" => reply'.out[2] = getCellGrid(t)
               /\ \A k \in 1..Len(text) :
                    xt[t].buf.lines[k] \in reqs[r].need => text[k] = xt[t].buf.lines[k]]_vars

C23_Witness ==
  /\ reply.op \in {"screenshot", "wait"} /\ reply.res = "ok"
  /\ LET text == IF reply.op = "wait" THEN reply.out ELSE reply.out[1]
     IN \E k \in 1..Len(text) : text[k] # Blank
  /\ \E t \in Terms : terms[t].sid = reply.id /\ xt[t].proc # {}

\* C24: resize(c, r) on a session that has a PTY reports no error, gives the
\* dimensions to that PTY and to the interpreter's buffer, touches no other
\* PTY, and leaves every field of the session as it was: cols and rows keep
\* the values given to the constructor.
C24_ResizeForwardsAndKeepsFields ==
  /\ [][\A t \in Terms :
          (calls' = calls + 1 /\ lastCall'.op = "resize" /\ lastCall'.t = t
             /\ terms[t].pty # NoPty)
          => /\ lastCall'.res = "ok"
             /\ ptys'[terms[t].pty].size = <<lastCall'.c, lastCall'.r>>
             /\ \A p \in Ptys \ {terms[t].pty} : ptys'[p] = ptys[p]
             /\ xt'[t].buf.xc = lastCall'.c /\ xt'[t].buf.xr = lastCall'.r
             /\ terms' = terms]_vars
  /\ [][\A t \in Terms :
          terms[t].made => /\ terms'[t].cols = terms[t].cols
                           /\ terms'[t].rows = terms[t].rows]_vars

C24_Witness ==
  /\ lastCall.op = "resize" /\ lastCall.res = "ok"
  /\ LET t == lastCall.t IN
       /\ terms[t].pty # NoPty
       /\ ptys[terms[t].pty].size = <<lastCall.c, lastCall.r>>
       /\ xt[t].buf.xc = lastCall.c /\ xt[t].buf.xr = lastCall.r
       /\ <<terms[t].cols, terms[t].rows>> # <<lastCall.c, lastCall.r>>

\* What a caller reads from a grid it holds.
Seen(g) == IF g.view = 0 THEN g.cells ELSE getCellGrid(g.view)

\* C25: the grid getCellGrid() returns holds, at the return, the cells of the
\* buffer, and it is a copy: what its holder reads from it is the same after
\* every later step (data parsed, resize, kill, destroy, another spawn).
C25_GridIsCopy ==
  [][\A t \in Terms :
       /\ (client[t].pc = "flushed" /\ client'[t].pc = "done")
            => Seen(client[t].grid)' = getCellGrid(t)
       /\ (client[t].pc = "done" /\ client'[t].pc = "done")
            => Seen(client[t].grid)' = Seen(client[t].grid)]_vars

C25_Witness ==
  \E t \in Terms :
    /\ client[t].pc = "done"
    /\ \E i \in 1..Len(client[t].grid.cells) :
         /\ client[t].grid.cells[i] # <<>>
         /\ client[t].grid.cells[i][1].char # Blank
    /\ Seen(client[t].grid) # getCellGrid(t)

\* C26: getText() and getCellGrid() return the visible screen. While the
\* interpreter has the size given to the constructor, the snapshot is the
\* viewport: the `rows` lines that start at the line the buffer has scrolled
\* to, also after more lines than `rows` were parsed.
C26_SnapshotIsViewport ==
  \A t \in Made :
    LET b == xt[t].buf
        viewport == [i \in 1..b.xr |-> b.lines[b.ybase + i]]
    IN (b.xr = terms[t].rows /\ b.xc = terms[t].cols)
         => /\ getText(t) = viewport
            /\ \A i \in 1..b.xr : getCellGrid(t)[i][1].char = viewport[i]

\* C27: once a spawn call has returned a session id, the session has its PTY:
\* a write or a waitForExit on the session (while it is registered) does not
\* fail for want of a spawned process, however the completion of the spawner
\* and the settle delay of the handler are ordered.
C27_ReturnedSessionHasPty ==
  (reply.op = "spawn" /\ reply.res = "ok" /\ reply.id \in DOMAIN sessions)
    => LET tm == terms[sessions[reply.id]] IN
         ~writeThrows(tm) /\ ~waitForExitThrows(tm)

\* C28: after a kill call on a session has completed, no PTY process of the
\* session is left running and none is started later: every process of a
\* destroyed session has been sent a kill or has exited, also when the kill
\* call came while the session's spawn() was still in flight.
C28_NoProcessAfterKill ==
  \A p \in Ptys :
    (ptys[p].owner # 0 /\ terms[ptys[p].owner].disposed)
      => ptys[p].killed \/ ptys[p].code # NoCode

\* C29: the text and the grid (from which the image is drawn) of one
\* screenshot are read from the same buffer state: both are those of the
\* buffer at the step in which the handler returns, and every line of the
\* text is the content of the same row of the grid.
C29_TextAndGridAgree ==
  [][\A r \in Reqs :
       (reqs[r].pc = "flushed" /\ reqs[r].op = "screenshot" /\ reqs'[r].op = "idle")
         => LET t == reqs[r].t
                text == reply'.out[1]
                grid == reply'.out[2]
            IN /\ reply'.op = "screenshot"
               /\ text = getText(t) /\ grid = getCellGrid(t)
               /\ xt' = xt /\ terms' = terms
               /\ \A k \in 1..Len(text) :
                    grid[k] # <<>> => grid[k][1].char = text[k]]_vars

C29_Witness ==
  /\ reply.op = "screenshot" /\ reply.res = "ok"
  /\ \E k \in 1..Len(reply.out[1]) :
       /\ reply.out[1][k] # Blank
       /\ reply.out[2][k] # <<>>
       /\ reply.out[2][k][1].char = reply.out[1][k]

\* C30: unescaping is one pass over the text: the character that the
\* translation of an escape produced is not combined with the input after it
\* and translated again. For a text that begins with an escape \xHH the
\* result is the character HH followed by the unescaped rest of the text; so
\* \x5c followed by e gives a backslash and an e, not ESC.
C30_EscapeOutputNotReread ==
  lastCall.op = "unescape" =>
    LET s == lastCall.arg IN
      (Len(s) >= 4 /\ s[1] = Ch.bsl /\ s[2] = Ch.x /\ IsHex(s[3]) /\ IsHex(s[4]))
        => lastCall.out = <<16 * parseHex(s[3]) + parseHex(s[4])>>
                            \o unescape(SubSeq(s, 5, Len(s)))

\* C31: once destroy() has disposed a session's interpreter, nothing more is
\* handed to that interpreter: no chunk of a PTY data event that arrives
\* later is written to it, and no flush of a tool call that was still
\* waiting is issued on it. Its write buffer only drains.
C31_NothingWrittenAfterDestroy ==
  [][\A t \in Terms :
       terms[t].disposed
         => /\ xt'[t].handed = xt[t].handed
            /\ Len(xt'[t].q) <= Len(xt[t].q)]_vars

====
